---- MODULE Spec2Model ----
(***************************************************************************)
(* image-quality-gate: the normalisation / scoring pipeline                *)
(* (app/services/preprocess.py, app/services/quality.py), the settings     *)
(* (app/core/config.py) and the POST /quality handler                      *)
(* (app/api/routes_quality.py).                                            *)
(*                                                                         *)
(* Numbers.  Python floats are IEEE doubles.  The two places where the     *)
(* rounding of a double decides an integer result (scale = max_dim / m     *)
(* and int(w * scale)) are modelled bit-exactly with integer arithmetic.   *)
(* The metrics (variance, mean) are kept as exact fractions num/den.       *)
(*                                                                         *)
(* Pixels.  A raster is a sequence of rows of pixels.  The Lanczos weights *)
(* of Image.resize are not modelled: a resized image keeps its sample grid *)
(* and changes its nominal (width, height) only.                           *)
(***************************************************************************)
EXTENDS Integers, Sequences, FiniteSets, TLC

VARIABLES boot, settings, req, arg, ret

vars == <<boot, settings, req, arg, ret>>

\* The settings before (or without) a successful load.
NoSettings ==
  [blur_min |-> 0, bright_min |-> 0, bright_max |-> 0, resize_max_dim |-> 0,
   max_upload_mb |-> 0]

Max(a, b) == IF a >= b THEN a ELSE b

RECURSIVE Pow2(_)
Pow2(n) == IF n <= 0 THEN 1 ELSE 2 * Pow2(n - 1)

(***************************************************************************)
(* Double-precision arithmetic of preprocess.py:28-30.                     *)
(***************************************************************************)

\* Mantissa width of an IEEE double, less the hidden bit.
MantBits == 52

\* For a < b: the t >= 1 with 2^-t <= a/b < 2^(1-t); the double a/b is then
\* M / 2^(52+t) with M in [2^52, 2^53].
RECURSIVE ScaleExp(_, _, _)
ScaleExp(a, b, t) == IF a * Pow2(t) >= b THEN t ELSE ScaleExp(a, b, t + 1)

\* (x * 2^n) mod k, by repeated doubling.
RECURSIVE ShiftMod(_, _, _)
ShiftMod(x, n, k) == IF n = 0 THEN x % k ELSE ShiftMod((2 * x) % k, n - 1, k)

\* For a < b: e = M*b - a*2^p, the signed error of the double nearest to a/b
\* (round to nearest, ties to even), in units of 1/(b*2^p), p = 52+t.
ScaleErr(a, b) ==
  LET p    == MantBits + ScaleExp(a, b, 1)
      r2   == ShiftMod(a, p, 2 * b)
      r    == r2 % b
      qodd == r2 >= b
  IN  IF 2 * r < b THEN 0 - r
      ELSE IF 2 * r > b THEN b - r
      ELSE IF qodd THEN b - r ELSE 0 - r

RECURSIVE ILog2(_, _)
ILog2(k, j) == IF Pow2(j + 1) <= k THEN ILog2(k, j + 1) ELSE j

\* Variant: the product rounded to the nearest integer instead of truncated.
IntMulScale_round(w, max_dim, m) == (2 * w * max_dim + m) \div (2 * m)

\* int(w * scale) with scale = the double max_dim / m, m > max_dim: the
\* product is rounded to a double, then truncated toward zero.
IntMulScale(w, max_dim, m) ==
  LET e == ScaleErr(max_dim, m)
      K == (w * max_dim) \div m
      f == (w * max_dim) % m
  IN  IF f # 0 \/ e >= 0 THEN K
      ELSE LET t   == ScaleExp(max_dim, m, 1)
               j   == ILog2(K, 0)
               rhs == IF Pow2(j) = K THEN m * Pow2(t + j) ELSE m * Pow2(t + j + 1)
           IN  IF 4 * w * (0 - e) <= rhs THEN K ELSE K - 1

(***************************************************************************)
(* preprocess.py                                                           *)
(***************************************************************************)

Raised == [ok |-> FALSE]

\* Image.resize((sw, sh), LANCZOS): the resampler refuses a size with a side
\* below 1 ("height and width must be > 0").
resize(img, sw, sh) ==
  IF sw < 1 \/ sh < 1 THEN Raised
  ELSE [ok |-> TRUE, width |-> sw, height |-> sh, px |-> img.px]

\* cv2.cvtColor(arr, COLOR_RGB2BGR): swaps the first and third channel.
RGB2BGR(px) ==
  [y \in DOMAIN px |-> [x \in DOMAIN px[y] |-> <<px[y][x][3], px[y][x][2], px[y][x][1]>>]]

\* Variant: scale = max_dim / max(w, h) without the min(1.0, ...) cap.
ScaleBelowOne_uncapped(w, h, max_dim) == Max(w, h) # max_dim

\* scale = min(1.0, max_dim / max(w, h)) is below 1.0 exactly when the longer
\* side exceeds max_dim (the quotient of two integers a < b is a double < 1).
ScaleBelowOne(w, h, max_dim) == Max(w, h) > max_dim

\* The size handed to Image.resize.
TargetSize(w, h, max_dim) ==
  LET m == Max(w, h)
  IN  <<IntMulScale(w, max_dim, m), IntMulScale(h, max_dim, m)>>

\* image_bytes.decodable: Image.open / exif_transpose / convert succeed;
\* image_bytes.w, .h: img.size after the orientation has been applied.
load_and_normalize(image_bytes, max_dim) ==
  IF ~image_bytes.decodable THEN Raised
  ELSE LET img == [ok |-> TRUE, width |-> image_bytes.w, height |-> image_bytes.h,
                   px |-> image_bytes.px]
           w == img.width
           h == img.height
           out == IF ScaleBelowOne(w, h, max_dim)
                  THEN LET sz == TargetSize(w, h, max_dim)
                       IN  resize(img, sz[1], sz[2])
                  ELSE img
       IN  IF ~out.ok THEN Raised
           ELSE [ok |-> TRUE, bgr |-> RGB2BGR(out.px), width |-> out.width,
                 height |-> out.height]

\* cv2.cvtColor(bgr, COLOR_BGR2GRAY): fixed-point luma, 14 fractional bits.
B2Y == 1868
G2Y == 9617
R2Y == 4899
YuvShift == 14

to_gray(bgr) ==
  [y \in DOMAIN bgr |-> [x \in DOMAIN bgr[y] |->
     (bgr[y][x][1] * B2Y + bgr[y][x][2] * G2Y + bgr[y][x][3] * R2Y
        + Pow2(YuvShift - 1)) \div Pow2(YuvShift)]]

(***************************************************************************)
(* Unit harness: one call of load_and_normalize on bounded inputs.         *)
(***************************************************************************)

\* Longest original side explored.
MaxOrig == 520

\* Original short sides explored against every long side.
ShortSides == {1, 2, 3, 7, 128, 200, 255, 256, 257, 322, 400}

\* resize_max_dim values explored (config.py:11 admits max_dim >= 256).
MaxDims == {256, 300}

OnePixel == << << <<255, 0, 0>> >> >>

NoRet == [ok |-> FALSE, pending |-> TRUE]

InitNorm ==
  /\ boot = "unit"
  /\ settings = NoSettings
  /\ req = <<>>
  /\ \E l \in 1..MaxOrig, s \in ShortSides, d \in MaxDims, wide \in BOOLEAN :
       arg = [fn |-> "load_and_normalize",
              image_bytes |-> [decodable |-> TRUE,
                               w |-> IF wide THEN l ELSE s,
                               h |-> IF wide THEN s ELSE l,
                               px |-> OnePixel],
              max_dim |-> d]
  /\ ret = NoRet

CallLoad ==
  /\ arg.fn = "load_and_normalize"
  /\ ret = NoRet
  /\ ret' = load_and_normalize(arg.image_bytes, arg.max_dim)
  /\ UNCHANGED <<boot, settings, req, arg>>

NextNorm == CallLoad

SpecNorm == InitNorm /\ [][NextNorm]_vars

Returned == arg.fn = "load_and_normalize" /\ ret # NoRet

OrigW == arg.image_bytes.w
OrigH == arg.image_bytes.h
OrigM == Max(OrigW, OrigH)

\* C2: every valid image with sides >= 1 and every max_dim >= 256 is
\* normalised successfully to positive width and height, neither above
\* max_dim.
C2_PositiveDims ==
  Returned =>
    /\ ret.ok
    /\ ret.width >= 1 /\ ret.height >= 1
    /\ Max(ret.width, ret.height) <= arg.max_dim

\* C3: normalisation never upscales: an image whose longer side is within
\* max_dim comes back with its own width and height, and no returned side
\* exceeds the original one.
C3_NeverUpscales ==
  Returned =>
    /\ OrigM <= arg.max_dim => ret.ok /\ ret.width = OrigW /\ ret.height = OrigH
    /\ ret.ok => ret.width <= OrigW /\ ret.height <= OrigH

C3_Witness ==
  /\ Returned /\ ret.ok
  /\ OrigM = arg.max_dim /\ OrigW # OrigH
  /\ ret.width = OrigW /\ ret.height = OrigH

\* The exact product x * max_dim / m, as quotient and remainder.
ExactQ(x) == (x * arg.max_dim) \div OrigM
ExactR(x) == (x * arg.max_dim) % OrigM

\* d is the exact product truncated toward zero; when the exact product is an
\* integer the double product may fall just below it, and d is one less.
IsTruncated(x, d) ==
  IF ExactR(x) # 0 THEN d = ExactQ(x) ELSE d \in {ExactQ(x) - 1, ExactQ(x)}

\* d is an integer nearest to the exact product (either one on a tie).
IsNearest(x, d) ==
  LET diff == d * OrigM - x * arg.max_dim
  IN  2 * (IF diff < 0 THEN 0 - diff ELSE diff) <= OrigM

\* C9 (as stated): when scale < 1.0 the returned dimensions are the products
\* rounded to the nearest integer.
C9_Rounded ==
  (Returned /\ ret.ok /\ OrigM > arg.max_dim) =>
    IsNearest(OrigW, ret.width) /\ IsNearest(OrigH, ret.height)

\* C9 (amended): when scale < 1.0 the returned dimensions are the products
\* truncated toward zero, int(w*scale) and int(h*scale); the call raises
\* instead of returning exactly when a truncated product is 0.
C9_Truncated ==
  (Returned /\ OrigM > arg.max_dim) =>
    /\ ret.ok => IsTruncated(OrigW, ret.width) /\ IsTruncated(OrigH, ret.height)
    /\ (ExactQ(OrigW) = 0 \/ ExactQ(OrigH) = 0) => ~ret.ok
    /\ ~ret.ok => \E x \in {OrigW, OrigH} :
                    ExactQ(x) = 0 \/ (ExactQ(x) = 1 /\ ExactR(x) = 0)

C9_Witness ==
  /\ Returned /\ ret.ok /\ OrigM > arg.max_dim
  /\ 2 * ExactR(OrigH) > OrigM
  /\ ret.height = ExactQ(OrigH)
  /\ ~IsNearest(OrigH, ret.height)

(***************************************************************************)
(* quality.py                                                              *)
(***************************************************************************)

RECURSIVE SumSeq(_)
SumSeq(s) == IF s = <<>> THEN 0 ELSE Head(s) + SumSeq(Tail(s))

\* Row-major list of the values of a grid.
RECURSIVE Flatten(_)
Flatten(g) == IF g = <<>> THEN <<>> ELSE Head(g) \o Flatten(Tail(g))

Squares(s) == [i \in DOMAIN s |-> s[i] * s[i]]

\* cv2 borderInterpolate, BORDER_REFLECT_101 (the default border of
\* cv2.Laplacian), 1-based: gfedcb|abcdefgh|gfedcba.
BorderInterpolate(p, len) ==
  IF len = 1 THEN 1
  ELSE IF p < 1 THEN 2 - p
  ELSE IF p > len THEN 2 * len - p
  ELSE p

\* Variant: the border padded with zeros (BORDER_CONSTANT).
Laplacian_zeropad(gray) ==
  LET H == Len(gray)
      W == Len(gray[1])
      At(y, x) == IF y < 1 \/ y > H \/ x < 1 \/ x > W THEN 0 ELSE gray[y][x]
  IN  [y \in DOMAIN gray |-> [x \in DOMAIN gray[y] |->
         At(y - 1, x) + At(y + 1, x) + At(y, x - 1) + At(y, x + 1) - 4 * gray[y][x]]]

\* cv2.Laplacian(gray, CV_64F), ksize = 1: kernel [0 1 0; 1 -4 1; 0 1 0].
Laplacian(gray) ==
  LET H == Len(gray)
      At(y, x) == gray[BorderInterpolate(y, H)][BorderInterpolate(x, Len(gray[1]))]
  IN  [y \in DOMAIN gray |-> [x \in DOMAIN gray[y] |->
         At(y - 1, x) + At(y + 1, x) + At(y, x - 1) + At(y, x + 1) - 4 * gray[y][x]]]

\* ndarray.var(): population variance, here the exact fraction
\* (N * sum(x^2) - sum(x)^2) / N^2.
variance_of_laplacian(gray) ==
  LET v == Flatten(Laplacian(gray))
      N == Len(v)
  IN  [num |-> N * SumSeq(Squares(v)) - SumSeq(v) * SumSeq(v), den |-> N * N]

\* ndarray.mean(), the exact fraction sum / N.
brightness(gray) ==
  LET v == Flatten(gray) IN [num |-> SumSeq(v), den |-> Len(v)]

\* a <= b for an integer a and a fraction b with positive denominator.
IntLeFrac(a, b) == a * b.den <= b.num
\* a >= b for a fraction a with positive denominator and an integer b.
FracGeInt(a, b) == a.num >= b * a.den
FracLeInt(a, b) == a.num <= b * a.den

Thresholds(blur_min, bright_min, bright_max) ==
  [blur_min |-> blur_min, bright_min |-> bright_min, bright_max |-> bright_max]

\* Variant: the blur comparison strict.
assess_strict(gray, thr) ==
  LET blur_score == variance_of_laplacian(gray)
      bright == brightness(gray)
      is_ok == /\ blur_score.num > thr.blur_min * blur_score.den
               /\ IntLeFrac(thr.bright_min, bright)
               /\ FracLeInt(bright, thr.bright_max)
  IN  [blur_score |-> blur_score, brightness |-> bright, is_ok |-> is_ok]

assess(gray, thr) ==
  LET blur_score == variance_of_laplacian(gray)
      bright == brightness(gray)
      is_ok == /\ FracGeInt(blur_score, thr.blur_min)
               /\ IntLeFrac(thr.bright_min, bright)
               /\ FracLeInt(bright, thr.bright_max)
  IN  [blur_score |-> blur_score, brightness |-> bright, is_ok |-> is_ok]

(***************************************************************************)
(* Unit harness: one call of assess on bounded inputs.                     *)
(***************************************************************************)

\* Largest intensity buffer explored: MaxRows by MaxCols.
MaxRows == 2
MaxCols == 3

\* Black and white pixels in every arrangement, and the uniform buffers of
\* the dark grey of test_dark_or_blurry_rejected.
GrayVals == {0, 255}
DarkGrey == 5

Grids ==
  UNION { [1..h -> [1..w -> GrayVals]] \cup {[y \in 1..h |-> [x \in 1..w |-> DarkGrey]]} :
            h \in 1..MaxRows, w \in 1..MaxCols }

\* The test thresholds, the defaults, and values that meet the metrics of
\* small buffers exactly.
ThrSet ==
  { Thresholds(50, 10, 245), Thresholds(140, 20, 235), Thresholds(0, 5, 5),
    Thresholds(260100, 0, 255), Thresholds(0, 200, 100) }

InitAssess ==
  /\ boot = "unit"
  /\ settings = NoSettings
  /\ req = <<>>
  /\ \E g \in Grids, t \in ThrSet : arg = [fn |-> "assess", gray |-> g, thr |-> t]
  /\ ret = NoRet

CallAssess ==
  /\ arg.fn = "assess"
  /\ ret = NoRet
  /\ ret' = assess(arg.gray, arg.thr)
  /\ UNCHANGED <<boot, settings, req, arg>>

NextAssess == CallAssess

SpecAssess == InitAssess /\ [][NextAssess]_vars

Assessed == arg.fn = "assess" /\ ret # NoRet

\* C1: is_ok is (blur_score >= blur_min) and (bright_min <= brightness <=
\* bright_max) on the returned metrics, every comparison inclusive.
C1_VerdictInclusive ==
  Assessed =>
    (ret.is_ok <=>
       /\ ret.blur_score.num >= arg.thr.blur_min * ret.blur_score.den
       /\ arg.thr.bright_min * ret.brightness.den <= ret.brightness.num
       /\ ret.brightness.num <= arg.thr.bright_max * ret.brightness.den)

\* All three comparisons met with equality, and the verdict passes.
C1_Witness ==
  /\ Assessed /\ ret.is_ok
  /\ ret.blur_score.num = arg.thr.blur_min * ret.blur_score.den
  /\ ret.brightness.num = arg.thr.bright_min * ret.brightness.den
  /\ ret.brightness.num = arg.thr.bright_max * ret.brightness.den

\* blur_score meets a positive blur_min exactly, and the verdict passes.
C1_WitnessBlurEdge ==
  /\ Assessed /\ ret.is_ok /\ arg.thr.blur_min > 0
  /\ ret.blur_score.num = arg.thr.blur_min * ret.blur_score.den

Uniform(gray) == \A y \in DOMAIN gray : \A x \in DOMAIN gray[y] : gray[y][x] = gray[1][1]

\* C7: blur_score >= 0; on a uniform buffer the Laplacian is 0 at every
\* pixel, borders included, blur_score is exactly 0, and is_ok is false
\* whenever blur_min > 0.
C7_UniformBlurZero ==
  Assessed =>
    /\ ret.blur_score.num >= 0 /\ ret.blur_score.den > 0
    /\ Uniform(arg.gray) =>
         /\ \A y \in DOMAIN arg.gray : \A x \in DOMAIN arg.gray[y] :
              Laplacian(arg.gray)[y][x] = 0
         /\ ret.blur_score.num = 0
         /\ arg.thr.blur_min > 0 => ~ret.is_ok

C7_Witness ==
  /\ Assessed /\ Uniform(arg.gray) /\ arg.gray[1][1] = DarkGrey
  /\ Len(arg.gray) = MaxRows /\ Len(arg.gray[1]) = MaxCols
  /\ arg.thr = Thresholds(50, 10, 245)
  /\ ret.blur_score.num = 0 /\ ~ret.is_ok

(***************************************************************************)
(* config.py                                                               *)
(***************************************************************************)

\* Field defaults of Settings.
DefaultBlurMin == 140
DefaultBrightMin == 20
DefaultBrightMax == 235
DefaultResizeMaxDim == 1600
DefaultMaxUploadMb == 6

\* Field bounds of Settings (ge / le).
BlurMinGe == 0
BrightGe == 0
BrightLe == 255
ResizeMaxDimGe == 256
MaxUploadMbGe == 1
MaxUploadMbLe == 25

\* An environment variable: unset, or set to the integer v.
Unset == [set |-> FALSE, v |-> 0]
Set(x) == [set |-> TRUE, v |-> x]

OrDefault(e, d) == IF e.set THEN e.v ELSE d

\* The field values Settings() takes from the environment and the defaults.
Fields(env) ==
  [blur_min       |-> OrDefault(env.blur_min, DefaultBlurMin),
   bright_min     |-> OrDefault(env.bright_min, DefaultBrightMin),
   bright_max     |-> OrDefault(env.bright_max, DefaultBrightMax),
   resize_max_dim |-> OrDefault(env.resize_max_dim, DefaultResizeMaxDim),
   max_upload_mb  |-> OrDefault(env.max_upload_mb, DefaultMaxUploadMb)]

\* The Field(...) constraints; Settings() raises ValidationError when one fails.
Validates(f) ==
  /\ f.blur_min >= BlurMinGe
  /\ f.bright_min >= BrightGe /\ f.bright_min <= BrightLe
  /\ f.bright_max >= BrightGe /\ f.bright_max <= BrightLe
  /\ f.resize_max_dim >= ResizeMaxDimGe
  /\ f.max_upload_mb >= MaxUploadMbGe /\ f.max_upload_mb <= MaxUploadMbLe

NoEnv ==
  [blur_min |-> Unset, bright_min |-> Unset, bright_max |-> Unset,
   resize_max_dim |-> Unset, max_upload_mb |-> Unset]

\* Environments explored at process start.
Envs ==
  { NoEnv,
    [blur_min |-> Set(0), bright_min |-> Set(200), bright_max |-> Set(100),
     resize_max_dim |-> Set(256), max_upload_mb |-> Set(1)],
    [NoEnv EXCEPT !.resize_max_dim = Set(255)],
    [NoEnv EXCEPT !.bright_max = Set(256)],
    [NoEnv EXCEPT !.bright_min = Set(0 - 1)],
    [NoEnv EXCEPT !.blur_min = Set(0 - 1)],
    [NoEnv EXCEPT !.max_upload_mb = Set(26)] }

(***************************************************************************)
(* routes_quality.py                                                       *)
(***************************************************************************)

\* str.startswith
startswith(s, prefix) ==
  Len(s) >= Len(prefix) /\ SubSeq(s, 1, Len(prefix)) = prefix

ImagePrefix == <<"i", "m", "a", "g", "e", "/">>

\* not file.content_type or not file.content_type.startswith("image/")
\* file.content_type: None (no Content-Type on the part), or a string.
NoType == [none |-> TRUE, str |-> <<>>]
Type(s) == [none |-> FALSE, str |-> s]

\* Variant: only a missing or empty content type is refused.
TypeRejected_anytype(content_type) ==
  \/ content_type.none
  \/ content_type.str = <<>>

TypeRejected(content_type) ==
  \/ content_type.none
  \/ content_type.str = <<>>
  \/ ~startswith(content_type.str, ImagePrefix)

Kibi == 1024

byte_limit(s) == s.max_upload_mb * Kibi * Kibi

\* Variant: a body of exactly byte_limit bytes counted as too large.
Oversize_inclusive(content, limit) == content.len >= limit

\* len(content) > byte_limit
Oversize(content, limit) == content.len > limit

HTTPException(status_code, detail) == [status |-> status_code, detail |-> detail]

\* Variant: the thresholds echoed are the field defaults, not the settings.
QualityResponse_defaults(res, w, h, s) ==
  [status |-> 200,
   blur_score |-> res.blur_score, brightness |-> res.brightness, is_ok |-> res.is_ok,
   width |-> w, height |-> h,
   thresholds |-> [blur_min |-> DefaultBlurMin, bright_min |-> DefaultBrightMin,
                   bright_max |-> DefaultBrightMax]]

\* QualityResponse(**res, width=w, height=h, thresholds={...}), answered 200.
QualityResponse(res, w, h, s) ==
  [status |-> 200,
   blur_score |-> res.blur_score, brightness |-> res.brightness, is_ok |-> res.is_ok,
   width |-> w, height |-> h,
   thresholds |-> [blur_min |-> s.blur_min, bright_min |-> s.bright_min,
                   bright_max |-> s.bright_max]]

\* Variant: the locals kept in one module-level frame shared by all calls.
Frame_shared(rq, r) == rq[1]

\* The locals of one invocation of quality(): each call has its own frame.
Frame(rq, r) == rq[r]

(***************************************************************************)
(* The service: process start, then concurrent POST /quality requests.     *)
(***************************************************************************)

\* Requests in flight.
NReq == 2

Reqs == 1..NReq

ContentTypes ==
  { NoType, Type(<<>>),
    Type(<<"i", "m", "a", "g", "e">>),
    Type(<<"i", "m", "a", "g", "e", "/", "p", "n", "g">>),
    Type(<<"t", "e", "x", "t", "/", "p", "l", "a", "i", "n">>) }

Black == <<0, 0, 0>>
White == <<255, 255, 255>>
Grey5 == <<5, 5, 5>>
Red == <<255, 0, 0>>

Mebi == 1048576

\* Uploads explored: undecodable bytes, small and large images, and lengths
\* at and just above the byte ceilings of the explored settings.
Bodies ==
  { [len |-> 11, decodable |-> FALSE, w |-> 0, h |-> 0, px |-> <<>>],
    [len |-> 100, decodable |-> TRUE, w |-> 2, h |-> 1, px |-> <<<<Black, White>>>>],
    [len |-> Mebi, decodable |-> TRUE, w |-> 322, h |-> 200,
     px |-> <<<<Red, White>>, <<Black, Grey5>>>>],
    [len |-> 2000, decodable |-> TRUE, w |-> 1, h |-> 257, px |-> <<<<Grey5>>>>],
    [len |-> Mebi + 1, decodable |-> TRUE, w |-> 1, h |-> 1, px |-> <<<<Grey5>>>>],
    [len |-> 6 * Mebi + 1, decodable |-> TRUE, w |-> 1, h |-> 1, px |-> <<<<White>>>>] }

NoBody == [len |-> 0, decodable |-> FALSE, w |-> 0, h |-> 0, px |-> <<>>]
NoFrac == [num |-> 0, den |-> 1]
NoRes == [blur_score |-> NoFrac, brightness |-> NoFrac, is_ok |-> FALSE]
NoResponse == [status |-> 0]

\* A request not yet received; its locals are unbound (placeholders).
Idle ==
  [pc |-> "idle", content_type |-> NoType, content |-> NoBody, bgr |-> <<>>,
   w |-> 0, h |-> 0, gray |-> <<>>, thr |-> Thresholds(0, 0, 0), res |-> NoRes,
   calls |-> <<>>, response |-> NoResponse]


Init ==
  /\ boot = "start"
  /\ settings = NoSettings
  /\ req = [r \in Reqs |-> Idle]
  /\ arg = [fn |-> "none"]
  /\ ret = NoRet

\* settings = Settings() at import: accepted.
BootOk ==
  /\ boot = "start"
  /\ \E env \in Envs :
       /\ Validates(Fields(env))
       /\ settings' = Fields(env)
  /\ boot' = "running"
  /\ UNCHANGED <<req, arg, ret>>

\* settings = Settings() at import: ValidationError, the process does not start.
BootFail ==
  /\ boot = "start"
  /\ \E env \in Envs : ~Validates(Fields(env))
  /\ boot' = "failed"
  /\ UNCHANGED <<settings, req, arg, ret>>

\* A request with an upload reaches quality().
Post(r) ==
  /\ boot = "running"
  /\ req[r].pc = "idle"
  /\ \E ct \in ContentTypes :
       req' = [req EXCEPT ![r] = [@ EXCEPT !.pc = "check_type", !.content_type = ct]]
  /\ UNCHANGED <<boot, settings, arg, ret>>

\* routes_quality.py:17-18
CheckType(r) ==
  /\ req[r].pc = "check_type"
  /\ req' = [req EXCEPT ![r] =
       IF TypeRejected(Frame(req, r).content_type)
       THEN [@ EXCEPT !.pc = "done",
                      !.response = HTTPException(415, "Unsupported media type")]
       ELSE [@ EXCEPT !.pc = "read"]]
  /\ UNCHANGED <<boot, settings, arg, ret>>

\* routes_quality.py:19, content = await file.read()
Read(r) ==
  /\ req[r].pc = "read"
  /\ \E b \in Bodies :
       req' = [req EXCEPT ![r] = [@ EXCEPT !.pc = "check_size", !.content = b]]
  /\ UNCHANGED <<boot, settings, arg, ret>>

\* routes_quality.py:20-22
CheckSize(r) ==
  /\ req[r].pc = "check_size"
  /\ req' = [req EXCEPT ![r] =
       IF Oversize(Frame(req, r).content, byte_limit(settings))
       THEN [@ EXCEPT !.pc = "done", !.response = HTTPException(413, "File too large")]
       ELSE [@ EXCEPT !.pc = "decode"]]
  /\ UNCHANGED <<boot, settings, arg, ret>>

\* routes_quality.py:23-26
Decode(r) ==
  /\ req[r].pc = "decode"
  /\ LET out == load_and_normalize(Frame(req, r).content, settings.resize_max_dim)
     IN  req' = [req EXCEPT ![r] =
           IF ~out.ok
           THEN [@ EXCEPT !.pc = "done",
                          !.calls = Append(@, "load_and_normalize"),
                          !.response = HTTPException(400, "Invalid image data")]
           ELSE [@ EXCEPT !.pc = "gray",
                          !.calls = Append(@, "load_and_normalize"),
                          !.bgr = out.bgr, !.w = out.width, !.h = out.height]]
  /\ UNCHANGED <<boot, settings, arg, ret>>

\* routes_quality.py:27
ToGray(r) ==
  /\ req[r].pc = "gray"
  /\ req' = [req EXCEPT ![r] = [@ EXCEPT !.pc = "assess",
                                         !.calls = Append(@, "to_gray"),
                                         !.gray = to_gray(Frame(req, r).bgr)]]
  /\ UNCHANGED <<boot, settings, arg, ret>>

\* routes_quality.py:28-30
Assess(r) ==
  /\ req[r].pc = "assess"
  /\ LET thr == Thresholds(settings.blur_min, settings.bright_min, settings.bright_max)
     IN  req' = [req EXCEPT ![r] = [@ EXCEPT !.pc = "respond",
                                             !.calls = Append(@, "assess"),
                                             !.thr = thr,
                                             !.res = assess(Frame(req, r).gray, thr)]]
  /\ UNCHANGED <<boot, settings, arg, ret>>

\* routes_quality.py:31-40
Respond(r) ==
  /\ req[r].pc = "respond"
  /\ LET f == Frame(req, r)
     IN  req' = [req EXCEPT ![r] = [@ EXCEPT !.pc = "done",
                                             !.response = QualityResponse(f.res, f.w, f.h, settings)]]
  /\ UNCHANGED <<boot, settings, arg, ret>>

Next ==
  \/ BootOk
  \/ BootFail
  \/ \E r \in Reqs :
       \/ Post(r)
       \/ CheckType(r)
       \/ Read(r)
       \/ CheckSize(r)
       \/ Decode(r)
       \/ ToGray(r)
       \/ Assess(r)
       \/ Respond(r)

Spec == Init /\ [][Next]_vars

(***************************************************************************)
(* Properties of the service.                                              *)
(***************************************************************************)

Done(r) == req[r].pc = "done"

Status(r) == req[r].response.status

\* The content type is present and begins with "image/".
IsImageType(ct) ==
  /\ ~ct.none
  /\ Len(ct.str) >= 6
  /\ \A i \in 1..6 : ct.str[i] = ImagePrefix[i]

Ceiling == settings.max_upload_mb * 1024 * 1024

\* C4: a request whose content type is missing or not image/* is answered
\* 415, one whose body exceeds max_upload_mb*1024*1024 bytes is answered 413
\* (a body of exactly that length is not), and in both cases no pipeline
\* function is ever invoked for it.
C4_RejectedBeforeDecoding ==
  \A r \in Reqs :
    LET f == req[r] IN
    /\ (f.pc # "idle" /\ ~IsImageType(f.content_type)) =>
         /\ f.calls = <<>>
         /\ Done(r) => Status(r) = 415
    /\ (IsImageType(f.content_type) /\ f.content.len > Ceiling) =>
         /\ f.calls = <<>>
         /\ Done(r) => Status(r) = 413
    /\ (Done(r) /\ f.content.len = Ceiling) => Status(r) # 413

C4_Witness ==
  \E r \in Reqs, q \in Reqs :
    /\ Done(r) /\ Status(r) = 415 /\ req[r].calls = <<>>
    /\ Done(q) /\ Status(q) = 413 /\ req[q].calls = <<>>
    /\ req[q].content.len = Ceiling + 1

\* The body of exactly the ceiling's length goes on to the pipeline.
C4_WitnessAtCeiling ==
  \E r \in Reqs :
    Done(r) /\ req[r].content.len = Ceiling /\ Status(r) = 200

C5_Witness200 ==
  \E r \in Reqs : Done(r) /\ Status(r) = 200 /\ req[r].response.is_ok

\* C6: every configuration accepted at start has blur_min >= 0, bright_min
\* and bright_max in [0,255], bright_min <= bright_max and
\* resize_max_dim >= 256.
C6_ValidatedRanges ==
  boot = "running" =>
    /\ settings.blur_min >= 0
    /\ settings.bright_min \in 0..255
    /\ settings.bright_max \in 0..255
    /\ settings.bright_min <= settings.bright_max
    /\ settings.resize_max_dim >= 256

\* C8: in a 200 response, thresholds are the values passed to assess for
\* that response's is_ok, and width and height are the dimensions returned
\* by load_and_normalize for that request.
C8_EchoesThresholdsAndDims ==
  \A r \in Reqs :
    (Done(r) /\ Status(r) = 200) =>
      LET f == req[r]
          out == load_and_normalize(f.content, settings.resize_max_dim)
      IN
      /\ f.response.thresholds = f.thr
      /\ f.response.is_ok = f.res.is_ok
      /\ f.res = assess(f.gray, f.thr)
      /\ f.response.width = out.width /\ f.response.height = out.height
      /\ f.w = out.width /\ f.h = out.height

\* A resized image under non-default thresholds.
C8_Witness ==
  \E r \in Reqs :
    /\ Done(r) /\ Status(r) = 200
    /\ req[r].response.width < req[r].content.w
    /\ req[r].response.thresholds # Thresholds(140, 20, 235)

\* The response of quality() handled alone.
SoloResponse(content_type, content, s) ==
  IF TypeRejected(content_type) THEN HTTPException(415, "Unsupported media type")
  ELSE IF Oversize(content, byte_limit(s)) THEN HTTPException(413, "File too large")
  ELSE LET out == load_and_normalize(content, s.resize_max_dim)
       IN  IF ~out.ok THEN HTTPException(400, "Invalid image data")
           ELSE QualityResponse(
                  assess(to_gray(out.bgr),
                         Thresholds(s.blur_min, s.bright_min, s.bright_max)),
                  out.width, out.height, s)

\* C10: under any interleaving of concurrent requests, each response is the
\* one the request would get alone: a function of its own content type, its
\* own bytes and the settings.
C10_Independent ==
  \A r \in Reqs :
    Done(r) => req[r].response = SoloResponse(req[r].content_type, req[r].content, settings)

\* One request has finished while another, with other bytes, is inside the
\* pipeline.
C10_Witness ==
  \E r \in Reqs, q \in Reqs :
    /\ r > q
    /\ Done(r) /\ Status(r) = 200
    /\ req[q].pc \in {"gray", "assess", "respond"}
    /\ req[q].content # req[r].content

====
